---- MODULE Spec2Model ----
(***************************************************************************)
(* cudamapper main.cpp: the per-device worker / writer pipeline, the       *)
(* global batch provider, the per-device producer-consumer queue and the   *)
(* alignment sub-stage (align_overlaps / run_alignment_batch).             *)
(*                                                                         *)
(* Indices (overlap_idx, idx_start, idx_end, device_id) keep the 0-based   *)
(* values of the C++ code; TLA+ sequences are 1-based, so element i of a   *)
(* vector v is v[i + 1].                                                   *)
(*                                                                         *)
(* Float arithmetic of align_overlaps is modelled exactly, over the        *)
(* rationals (memory_per_base = 3/100, 85/100 of the free memory), without *)
(* the rounding of single precision.                                       *)
(***************************************************************************)
EXTENDS Integers, Sequences, FiniteSets, TLC

\* ---------------------------------------------------------------- bounds
MaxEngines  == 2
MaxOverlaps == 2
MaxBatches  == 2

\* ------------------------------------------------------- program constants
\* memory_per_base = 0.03f, as the fraction MemoryPerBaseNum / MemoryPerBaseDen
MemoryPerBaseNum == 3
MemoryPerBaseDen == 100
\* "Using 85% of available memory": free * 85 / 100
MemoryPercentNum == 85
MemoryPercentDen == 100

\* cga_optional_t<T>: empty, or holding one value
Empty == << >>

Some(x) == << x >>

HasValue(opt) == opt # << >>

Value(opt) == opt[1]

\* numbers of devices explored, and the device ids they use
DeviceCounts == {1, 2}

Devices == 0 .. 1
Engines == 0 .. (MaxEngines - 1)

Min(a, b) == IF a < b THEN a ELSE b

SetMax(S) == CHOOSE x \in S : \A y \in S : y <= x

\* C++ integer division truncates towards zero
CDiv(a, b) == IF a >= 0 THEN a \div b ELSE -((-a) \div b)

\* ------------------------------------------------------------- data model
IndexDescriptor(first, n) == [first_read |-> first, number_of_reads |-> n]

IndexBatch(q, t) == [query_indices |-> q, target_indices |-> t]

BatchOfIndices(host, dev) == [host_batch |-> host, device_batches |-> dev]

D0 == IndexDescriptor(0, 2)
D2 == IndexDescriptor(2, 2)

\* batches as generate_batches_of_indices may return them: every descriptor
\* of a device batch is in the host batch
BatchPool ==
    << BatchOfIndices(IndexBatch(<<D0>>, <<D0>>), << IndexBatch(<<D0>>, <<D0>>) >>),
       BatchOfIndices(IndexBatch(<<D0>>, <<D2>>), << IndexBatch(<<D0>>, <<D2>>) >>),
       BatchOfIndices(IndexBatch(<<D2>>, <<D2>>), << IndexBatch(<<D2>>, <<D2>>) >>),
       BatchOfIndices(IndexBatch(<<D2>>, <<D0>>), << IndexBatch(<<D2>>, <<D0>>) >>) >>

\* one host batch split into two device batches, two targets each
WideBatch ==
    BatchOfIndices(IndexBatch(<<D0, D2>>, <<D0, D2>>),
                   << IndexBatch(<<D0>>, <<D0, D2>>), IndexBatch(<<D2>>, <<D0, D2>>) >>)

\* one device batch with the same two descriptors as queries and as targets
SquareBatch ==
    BatchOfIndices(IndexBatch(<<D0, D2>>, <<D0, D2>>),
                   << IndexBatch(<<D0, D2>>, <<D0, D2>>) >>)

BatchLists ==
    { SubSeq(BatchPool, 1, k) : k \in 0 .. Min(MaxBatches, Len(BatchPool)) }
        \cup { << WideBatch >>, << SquareBatch >>, << WideBatch, BatchPool[1] >> }

\* sizes (in bases) of the overlapped regions the overlapper may report
OverlapSizes == {1, 6}

\* free device memory reported by cudaMemGetInfo, in bytes
FreeMemValues == {0, 1, 3}

Overlap(qid, tid, start, size) ==
    [ query_read_id_                 |-> qid,
      target_read_id_                |-> tid,
      query_start_position_in_read_  |-> start,
      query_end_position_in_read_    |-> start + size,
      target_start_position_in_read_ |-> start,
      target_end_position_in_read_   |-> start + size ]

\* the sizes of the overlaps the input reads give: up to MaxOverlaps overlaps
\* per pair of descriptors
OverlapSizeLists == UNION { [1 .. n -> OverlapSizes] : n \in 0 .. MaxOverlaps }

\* float -> size_t conversion of a value that is not finite (division by a
\* memory_per_alignment of 0) is undefined: the outcomes a build can produce,
\* as seen after static_cast<int32_t> (0, or all bits set)
UndefinedConversions == {0, -1}

\* ------------------------------------------------------------------ state
VARIABLES
    \* ApplicationParameters (main.cpp:410)
    num_devices, alignment_engines, all_to_all,
    \* the input reads, as far as the pipeline sees them: the sizes of the
    \* overlaps found for a pair of descriptors
    overlap_sizes,
    \* main
    main_pc, main_device_id, cuda_streams, aborted,
    \* ThreadsafeDataProvider<BatchOfIndices> batches_of_indices
    batches_of_indices,
    \* worker_thread_function locals, per device
    worker_pc, batch_of_indices, device_batch_idx, query_idx, target_idx,
    overlaps, cigar,
    \* ThreadsafeProducerConsumer<OverlapsAndCigars>, per device
    queue, pushed_last,
    \* writer_thread_function, per device
    writer_pc, data_to_write,
    \* std::mutex output_mutex (main.cpp:412): empty, or the device whose
    \* writer holds it
    output_mutex,
    \* align_overlaps / run_alignment_batch, per device (and engine)
    batch_size, overlap_idx, future_idx, engine_pc, idx_start, idx_end, alignments,
    free_memory,
    \* the calling thread's current CUDA device: of each worker thread, of each
    \* writer thread, and the device_id each engine thread reads (main.cpp:56)
    worker_device, writer_device, engine_device_id,
    \* IndexCacheDevice device_cache of each worker (main.cpp:365)
    device_query_cache, device_target_cache,
    \* IndexCacheHost host_cache of each worker (main.cpp:354)
    host_query_cache, host_target_cache,
    \* history of the cache lookups (not program state): the descriptors the
    \* device cache asked the host cache for, per host batch and role, and
    \* whether a lookup failed with NotFoundError
    host_lookups, not_found,
    \* history of the claim loop (not program state): the ranges the engines
    \* claimed, and how many times each overlap was claimed
    claimed, claim_count,
    \* history (not program state): batches taken, elements added / received /
    \* written per device, engines that wrote each cigar slot, pairs of
    \* descriptors processed per device
    taken, added, received, written, cigar_writers, processed

paramVars  == << num_devices, alignment_engines, all_to_all, overlap_sizes >>
mainVars   == << main_pc, main_device_id >>
loopVars   == << batch_of_indices, device_batch_idx, query_idx, target_idx >>
pairVars   == << overlaps, cigar >>
queueVars  == << queue, pushed_last >>
writerVars == << writer_pc, data_to_write >>
alignVars  == << batch_size, overlap_idx, future_idx, engine_pc, idx_start, idx_end,
                 alignments, free_memory, cigar_writers >>
deviceVars == << worker_device, writer_device, engine_device_id >>
cacheVars  == << device_query_cache, device_target_cache >>
hostCacheVars == << host_query_cache, host_target_cache >>
lookupVars == << host_lookups, not_found >>
claimVars  == << claimed, claim_count >>
histVars   == << taken, added, received, written, processed >>

vars == << paramVars, mainVars, deviceVars, cacheVars, hostCacheVars, lookupVars, claimVars, output_mutex,
           cuda_streams, aborted, batches_of_indices, worker_pc, loopVars, pairVars,
           queueVars, writerVars, alignVars, histVars >>

\* ------------------------------------- threadsafe containers (utils header)
\* ThreadsafeDataProvider::get_next_element: under the provider's lock, the
\* next element is taken out; empty when none is left
DataProviderNext(data) == IF data = << >> THEN Empty ELSE Some(Head(data))

DataProviderRest(data) == IF data = << >> THEN data ELSE Tail(data)

\* ThreadsafeProducerConsumer::add_new_element
add_new_element(q, e) == Append(q, e)

\* ThreadsafeProducerConsumer::get_next_element returns once an element is
\* available or the last element was signalled
get_next_element_ready(q, last) == q # << >> \/ last

get_next_element_value(q) == IF q = << >> THEN Empty ELSE Some(Head(q))

get_next_element_rest(q) == IF q = << >> THEN q ELSE Tail(q)

\* ------------------------------------------------------------------- Init
\* the runs explored: several devices and batches with at most one engine
\* and one overlap per pair, or one device and one batch with up to
\* MaxEngines engines and MaxOverlaps overlaps per pair
InitParameters ==
    \/ /\ num_devices \in DeviceCounts
       /\ alignment_engines \in 0 .. 1
       /\ all_to_all \in BOOLEAN
       /\ batches_of_indices \in BatchLists
       /\ overlap_sizes \in { sz \in OverlapSizeLists : Len(sz) <= 1 }
    \/ /\ num_devices = 1
       /\ alignment_engines \in 1 .. MaxEngines
       /\ all_to_all = FALSE
       /\ batches_of_indices = SubSeq(BatchPool, 1, 1)
       /\ overlap_sizes \in OverlapSizeLists

Init ==
    /\ InitParameters
    /\ main_pc = "spawn"
    /\ main_device_id = 0
    /\ cuda_streams = [d \in Devices |-> "none"]
    /\ aborted = FALSE
    /\ worker_pc = [d \in Devices |-> "not_started"]
    /\ batch_of_indices = [d \in Devices |-> Empty]
    /\ device_batch_idx = [d \in Devices |-> 0]
    /\ query_idx = [d \in Devices |-> 0]
    /\ target_idx = [d \in Devices |-> 0]
    /\ overlaps = [d \in Devices |-> << >>]
    /\ cigar = [d \in Devices |-> << >>]
    /\ queue = [d \in Devices |-> << >>]
    /\ pushed_last = [d \in Devices |-> FALSE]
    /\ writer_pc = [d \in Devices |-> "not_started"]
    /\ data_to_write = [d \in Devices |-> Empty]
    /\ output_mutex = Empty
    /\ worker_device = [d \in Devices |-> Empty]
    /\ writer_device = [d \in Devices |-> Empty]
    /\ engine_device_id = [d \in Devices |-> [t \in Engines |-> Empty]]
    /\ device_query_cache = [d \in Devices |-> {}]
    /\ device_target_cache = [d \in Devices |-> {}]
    /\ host_query_cache = [d \in Devices |-> {}]
    /\ host_target_cache = [d \in Devices |-> {}]
    /\ host_lookups = [d \in Devices |-> {}]
    /\ not_found = [d \in Devices |-> FALSE]
    /\ claimed = [d \in Devices |-> {}]
    /\ claim_count = [d \in Devices |-> << >>]
    /\ batch_size = [d \in Devices |-> 0]
    /\ overlap_idx = [d \in Devices |-> 0]
    /\ future_idx = [d \in Devices |-> 0]
    /\ engine_pc = [d \in Devices |-> [t \in Engines |-> "none"]]
    /\ idx_start = [d \in Devices |-> [t \in Engines |-> 0]]
    /\ idx_end = [d \in Devices |-> [t \in Engines |-> 0]]
    /\ alignments = [d \in Devices |-> [t \in Engines |-> << >>]]
    /\ free_memory = [d \in Devices |-> 0]
    /\ cigar_writers = [d \in Devices |-> << >>]
    /\ taken = [d \in Devices |-> << >>]
    /\ added = [d \in Devices |-> << >>]
    /\ received = [d \in Devices |-> << >>]
    /\ written = [d \in Devices |-> << >>]
    /\ processed = [d \in Devices |-> << >>]

\* cudaGetDevice (main.cpp:56) in a thread that never called cudaSetDevice
\* returns the CUDA runtime's default device
DefaultDevice == 0

\* ------------------------------------------------------------------- main
\* main.cpp:432-442: create the stream and the worker thread of one device
MainSpawn ==
    /\ ~aborted
    /\ main_pc = "spawn"
    /\ main_device_id < num_devices
    /\ cuda_streams' = [cuda_streams EXCEPT ![main_device_id] = "created"]
    /\ worker_pc' = [worker_pc EXCEPT ![main_device_id] = "start"]
    /\ worker_device' = [worker_device EXCEPT ![main_device_id] = Some(DefaultDevice)]
    /\ IF main_device_id + 1 = num_devices
          THEN main_pc' = "join" /\ main_device_id' = 0
          ELSE main_pc' = "spawn" /\ main_device_id' = main_device_id + 1
    /\ UNCHANGED << paramVars, hostCacheVars, lookupVars, writer_device, engine_device_id,
                    cacheVars, claimVars, output_mutex, aborted, batches_of_indices,
                    loopVars, pairVars, queueVars, writerVars, alignVars, histVars >>

\* main.cpp:448: worker_threads[device_id].join()
MainJoin ==
    /\ ~aborted
    /\ main_pc = "join"
    /\ worker_pc[main_device_id] = "done"
    /\ main_pc' = "destroy"
    /\ UNCHANGED << paramVars, hostCacheVars, lookupVars, deviceVars, cacheVars,
                    claimVars, output_mutex, main_device_id, cuda_streams, aborted,
                    batches_of_indices, worker_pc, loopVars, pairVars, queueVars,
                    writerVars, alignVars, histVars >>

\* main.cpp:449: cudaStreamDestroy(cuda_streams[device_id]), then the next
\* device or return 0
MainDestroyStream ==
    /\ ~aborted
    /\ main_pc = "destroy"
    /\ cuda_streams' = [cuda_streams EXCEPT ![main_device_id] = "destroyed"]
    /\ IF main_device_id + 1 = num_devices
          THEN main_pc' = "returned" /\ main_device_id' = main_device_id
          ELSE main_pc' = "join" /\ main_device_id' = main_device_id + 1
    /\ UNCHANGED << paramVars, hostCacheVars, lookupVars, deviceVars, cacheVars,
                    claimVars, output_mutex, aborted, batches_of_indices, worker_pc,
                    loopVars, pairVars, queueVars, writerVars, alignVars, histVars >>

\* CurDeviceBatch that walks the device batches from the last to the first
CurDeviceBatch_Reversed(d) ==
    Value(batch_of_indices[d]).device_batches[
        Len(Value(batch_of_indices[d]).device_batches) + 1 - device_batch_idx[d]]

\* ----------------------------------------------------------- worker thread
\* the device batch, query descriptor and target descriptor the loops of
\* process_one_batch / process_one_device_batch are at
CurDeviceBatch(d) == Value(batch_of_indices[d]).device_batches[device_batch_idx[d]]

CurQuery(d) == CurDeviceBatch(d).query_indices[query_idx[d]]

CurTarget(d) == CurDeviceBatch(d).target_indices[target_idx[d]]

\* main.cpp:222-235, Matcher and OverlapperTriggered::get_overlaps for the
\* reads of one pair of descriptors: the k-th overlap starts at k times the
\* largest size (an overlap of the largest size touches the next one)
get_overlaps(q, t) ==
    [ k \in 1 .. Len(overlap_sizes) |->
        Overlap(q.first_read, t.first_read, SetMax(OverlapSizes) * k, overlap_sizes[k]) ]

\* PairIsProcessed with a strict comparison: the pair of a descriptor with
\* itself is pruned too
PairIsProcessed_Strict(q, t) == ~all_to_all \/ t.first_read > q.first_read

\* main.cpp:216: the pair is processed unless all_to_all prunes it
PairIsProcessed(q, t) == ~all_to_all \/ t.first_read >= q.first_read

\* main.cpp:348-377: set the device, create the caches and the queue, start
\* the writer thread
WorkerStart(d) ==
    /\ ~aborted
    /\ worker_pc[d] = "start"
    /\ worker_device' = [worker_device EXCEPT ![d] = Some(d)]
    /\ worker_pc' = [worker_pc EXCEPT ![d] = "get_batch"]
    /\ writer_device' = [writer_device EXCEPT ![d] = Some(d)]
    /\ writer_pc' = [writer_pc EXCEPT ![d] = "get"]
    /\ UNCHANGED << paramVars, hostCacheVars, lookupVars, engine_device_id, cacheVars,
                    claimVars, output_mutex, mainVars, cuda_streams, aborted,
                    batches_of_indices, loopVars, pairVars, queueVars, data_to_write,
                    alignVars, histVars >>

\* WorkerGetBatch without the lock: every worker that is fetching reads the
\* same next batch before it is taken out
WorkerGetBatch_NoLock(d) ==
    /\ ~aborted
    /\ worker_pc[d] = "get_batch"
    /\ LET fetching == IF HasValue(DataProviderNext(batches_of_indices))
                          THEN { e \in Devices : worker_pc[e] = "get_batch" }
                          ELSE { d }
       IN  /\ batch_of_indices' = [e \in Devices |->
                                     IF e \in fetching THEN DataProviderNext(batches_of_indices)
                                                       ELSE batch_of_indices[e]]
           /\ batches_of_indices' = DataProviderRest(batches_of_indices)
           /\ IF ~HasValue(DataProviderNext(batches_of_indices))
                 THEN /\ worker_pc' = [worker_pc EXCEPT ![d] = "signal"]
                      /\ taken' = taken
                 ELSE /\ worker_pc' = [e \in Devices |->
                                         IF e \in fetching THEN "process_one_batch"
                                                           ELSE worker_pc[e]]
                      /\ taken' = [e \in Devices |->
                                     IF e \in fetching
                                        THEN Append(taken[e], Value(DataProviderNext(batches_of_indices)))
                                        ELSE taken[e]]
    /\ UNCHANGED << paramVars, hostCacheVars, lookupVars, deviceVars, cacheVars,
                    claimVars, output_mutex, mainVars, cuda_streams, aborted,
                    device_batch_idx, query_idx, target_idx, pairVars, queueVars,
                    writerVars, alignVars, added, received, written, processed >>

\* main.cpp:380-381 and 392: batches_of_indices.get_next_element() and the
\* test of the while loop
WorkerGetBatch(d) ==
    /\ ~aborted
    /\ worker_pc[d] = "get_batch"
    /\ batch_of_indices' = [batch_of_indices EXCEPT ![d] = DataProviderNext(batches_of_indices)]
    /\ batches_of_indices' = DataProviderRest(batches_of_indices)
    /\ IF ~HasValue(DataProviderNext(batches_of_indices))
          THEN /\ worker_pc' = [worker_pc EXCEPT ![d] = "signal"]
               /\ taken' = taken
          ELSE /\ worker_pc' = [worker_pc EXCEPT ![d] = "process_one_batch"]
               /\ taken' = [taken EXCEPT ![d] = Append(@, Value(DataProviderNext(batches_of_indices)))]
    /\ UNCHANGED << paramVars, hostCacheVars, lookupVars, deviceVars, cacheVars,
                    claimVars, output_mutex, mainVars, cuda_streams, aborted,
                    device_batch_idx, query_idx, target_idx, pairVars, queueVars,
                    writerVars, alignVars, added, received, written, processed >>
DescriptorsOf(descriptors) == { descriptors[i] : i \in DOMAIN descriptors }

\* IndexCacheHost::generate_query_cache_content and
\* generate_target_cache_content: every descriptor of the batch gets an index,
\* cached entries of other descriptors are evicted unless they are needed on
\* the device next
generate_host_cache_content(cache, batch_descriptors, needed_on_device_next) ==
    DescriptorsOf(batch_descriptors) \cup (cache \cap DescriptorsOf(needed_on_device_next))

\* ProcessOneBatch that loads the host target cache with the query descriptors
ProcessOneBatch_QueriesOnly(d) ==
    /\ ~aborted
    /\ worker_pc[d] = "process_one_batch"
    /\ host_query_cache' = [host_query_cache EXCEPT ![d] =
          generate_host_cache_content(@, Value(batch_of_indices[d]).host_batch.query_indices,
                                      Head(Value(batch_of_indices[d]).device_batches).query_indices)]
    /\ host_target_cache' = [host_target_cache EXCEPT ![d] =
          generate_host_cache_content(@, Value(batch_of_indices[d]).host_batch.query_indices,
                                      Head(Value(batch_of_indices[d]).device_batches).query_indices)]
    /\ device_batch_idx' = [device_batch_idx EXCEPT ![d] = 1]
    /\ worker_pc' = [worker_pc EXCEPT ![d] = "device_batch"]
    /\ UNCHANGED << paramVars, lookupVars, deviceVars, cacheVars, claimVars, output_mutex,
                    mainVars, cuda_streams, aborted, batches_of_indices, batch_of_indices,
                    query_idx, target_idx, pairVars, queueVars, writerVars, alignVars,
                    histVars >>

\* main.cpp:275-285: load the host cache, start the loop over device batches
ProcessOneBatch(d) ==
    /\ ~aborted
    /\ worker_pc[d] = "process_one_batch"
    /\ host_query_cache' = [host_query_cache EXCEPT ![d] =
          generate_host_cache_content(@, Value(batch_of_indices[d]).host_batch.query_indices,
                                      Head(Value(batch_of_indices[d]).device_batches).query_indices)]
    /\ host_target_cache' = [host_target_cache EXCEPT ![d] =
          generate_host_cache_content(@, Value(batch_of_indices[d]).host_batch.target_indices,
                                      Head(Value(batch_of_indices[d]).device_batches).target_indices)]
    /\ device_batch_idx' = [device_batch_idx EXCEPT ![d] = 1]
    /\ worker_pc' = [worker_pc EXCEPT ![d] = "device_batch"]
    /\ UNCHANGED << paramVars, lookupVars, deviceVars, cacheVars, claimVars, output_mutex,
                    mainVars, cuda_streams, aborted, batches_of_indices, batch_of_indices,
                    query_idx, target_idx, pairVars, queueVars, writerVars, alignVars,
                    histVars >>


\* the descriptors IndexCacheDevice has to get from IndexCacheHost::get_index
\* when it generates its content: those it does not hold yet
FetchedFromHost(cache, descriptors) == DescriptorsOf(descriptors) \ cache

\* IndexCacheDevice::generate_query_cache_content and
\* generate_target_cache_content: the entries of the given descriptors that
\* are present stay, the missing ones are fetched from the host cache, and the
\* entries of other descriptors are evicted
generate_cache_content(cache, descriptors) ==
    LET wanted == { descriptors[i] : i \in DOMAIN descriptors }
    IN  (cache \cap wanted) \cup (wanted \ cache)

\* ProcessOneDeviceBatch that fills the device query cache only once
ProcessOneDeviceBatch_StaleQueries(d) ==
    /\ ~aborted
    /\ worker_pc[d] = "device_batch"
    /\ IF device_batch_idx[d] > Len(Value(batch_of_indices[d]).device_batches)
          THEN /\ worker_pc' = [worker_pc EXCEPT ![d] = "get_batch"]
               /\ UNCHANGED << query_idx, target_idx, cacheVars >>
          ELSE /\ device_query_cache' = [device_query_cache EXCEPT ![d] =
                      IF @ = {} THEN generate_cache_content(@, CurDeviceBatch(d).query_indices)
                                ELSE @]
               /\ device_target_cache' = [device_target_cache EXCEPT ![d] =
                      generate_cache_content(@, CurDeviceBatch(d).target_indices)]
               /\ worker_pc' = [worker_pc EXCEPT ![d] = "pair"]
               /\ query_idx' = [query_idx EXCEPT ![d] = 1]
               /\ target_idx' = [target_idx EXCEPT ![d] = 1]
    /\ UNCHANGED << paramVars, hostCacheVars, lookupVars, deviceVars, claimVars,
                    output_mutex, mainVars, cuda_streams, aborted, batches_of_indices,
                    batch_of_indices, device_batch_idx, pairVars, queueVars, writerVars,
                    alignVars, histVars >>

\* main.cpp:285 and 203-213: next device batch (or the end of
\* process_one_batch); load the device cache, start the loops over the pairs
ProcessOneDeviceBatch(d) ==
    /\ ~aborted
    /\ worker_pc[d] = "device_batch"
    /\ IF device_batch_idx[d] > Len(Value(batch_of_indices[d]).device_batches)
          THEN /\ worker_pc' = [worker_pc EXCEPT ![d] = "get_batch"]
               /\ UNCHANGED << query_idx, target_idx, cacheVars, lookupVars >>
          ELSE LET queries == FetchedFromHost(device_query_cache[d],
                                                  CurDeviceBatch(d).query_indices)
                   targets == FetchedFromHost(device_target_cache[d],
                                                  CurDeviceBatch(d).target_indices)
               IN  /\ host_lookups' = [host_lookups EXCEPT ![d] =
                          @ \cup { << Len(taken[d]), "query", x >> : x \in queries }
                            \cup { << Len(taken[d]), "target", x >> : x \in targets }]
                   /\ IF queries \subseteq host_query_cache[d]
                          /\ targets \subseteq host_target_cache[d]
                         THEN /\ device_query_cache' = [device_query_cache EXCEPT ![d] =
                                    generate_cache_content(@, CurDeviceBatch(d).query_indices)]
                              /\ device_target_cache' = [device_target_cache EXCEPT ![d] =
                                    generate_cache_content(@, CurDeviceBatch(d).target_indices)]
                              /\ worker_pc' = [worker_pc EXCEPT ![d] = "pair"]
                              /\ query_idx' = [query_idx EXCEPT ![d] = 1]
                              /\ target_idx' = [target_idx EXCEPT ![d] = 1]
                              /\ UNCHANGED not_found
                         ELSE /\ not_found' = [not_found EXCEPT ![d] = TRUE]
                              /\ worker_pc' = [worker_pc EXCEPT ![d] = "throwing"]
                              /\ UNCHANGED << query_idx, target_idx, cacheVars >>
    /\ UNCHANGED << paramVars, hostCacheVars, deviceVars, claimVars, output_mutex,
                    mainVars, cuda_streams, aborted, batches_of_indices, batch_of_indices,
                    device_batch_idx, pairVars, queueVars, writerVars, alignVars, histVars >>

\* main.cpp:211-216: one step of the two nested loops over the descriptors:
\* leave the device batch, go to the next query, or skip a pruned pair
NextPair(d) ==
    /\ ~aborted
    /\ worker_pc[d] = "pair"
    /\ \/ /\ query_idx[d] > Len(CurDeviceBatch(d).query_indices)
          /\ device_batch_idx' = [device_batch_idx EXCEPT ![d] = @ + 1]
          /\ worker_pc' = [worker_pc EXCEPT ![d] = "device_batch"]
          /\ UNCHANGED << query_idx, target_idx >>
       \/ /\ query_idx[d] <= Len(CurDeviceBatch(d).query_indices)
          /\ target_idx[d] > Len(CurDeviceBatch(d).target_indices)
          /\ query_idx' = [query_idx EXCEPT ![d] = @ + 1]
          /\ target_idx' = [target_idx EXCEPT ![d] = 1]
          /\ UNCHANGED << device_batch_idx, worker_pc >>
       \/ /\ query_idx[d] <= Len(CurDeviceBatch(d).query_indices)
          /\ target_idx[d] <= Len(CurDeviceBatch(d).target_indices)
          /\ ~PairIsProcessed(CurQuery(d), CurTarget(d))
          /\ target_idx' = [target_idx EXCEPT ![d] = @ + 1]
          /\ UNCHANGED << device_batch_idx, query_idx, worker_pc >>
    /\ UNCHANGED << paramVars, hostCacheVars, lookupVars, deviceVars, cacheVars,
                    claimVars, output_mutex, mainVars, cuda_streams, aborted,
                    batches_of_indices, batch_of_indices, pairVars, queueVars, writerVars,
                    alignVars, histVars >>

\* ProcessPair that resizes the cigar vector whether or not alignment runs
ProcessPair_ResizeAlways(d) ==
    /\ ~aborted
    /\ worker_pc[d] = "pair"
    /\ query_idx[d] <= Len(CurDeviceBatch(d).query_indices)
    /\ target_idx[d] <= Len(CurDeviceBatch(d).target_indices)
    /\ PairIsProcessed(CurQuery(d), CurTarget(d))
    /\ LET found == get_overlaps(CurQuery(d), CurTarget(d))
       IN  /\ overlaps' = [overlaps EXCEPT ![d] = found]
           /\ cigar' = [cigar EXCEPT ![d] = [i \in 1 .. Len(found) |-> << >>]]
           /\ IF alignment_engines > 0
                 THEN worker_pc' = [worker_pc EXCEPT ![d] = "align_overlaps"]
                 ELSE worker_pc' = [worker_pc EXCEPT ![d] = "add"]
    /\ processed' = [processed EXCEPT ![d] =
                        Append(@, [ batch        |-> Len(taken[d]),
                                    device_batch |-> device_batch_idx[d],
                                    query        |-> CurQuery(d),
                                    target       |-> CurTarget(d) ])]
    /\ UNCHANGED << paramVars, hostCacheVars, lookupVars, deviceVars, cacheVars,
                    claimVars, output_mutex, mainVars, cuda_streams, aborted,
                    batches_of_indices, loopVars, queueVars, writerVars, alignVars, taken,
                    added, received, written >>

\* main.cpp:218-244: a pair that is not pruned: matcher and overlapper give
\* the overlaps; with alignment engines the cigar vector gets one (empty)
\* entry per overlap and align_overlaps is called
ProcessPair(d) ==
    /\ ~aborted
    /\ worker_pc[d] = "pair"
    /\ query_idx[d] <= Len(CurDeviceBatch(d).query_indices)
    /\ target_idx[d] <= Len(CurDeviceBatch(d).target_indices)
    /\ PairIsProcessed(CurQuery(d), CurTarget(d))
    /\ IF CurQuery(d) \in device_query_cache[d] /\ CurTarget(d) \in device_target_cache[d]
          THEN LET found == get_overlaps(CurQuery(d), CurTarget(d))
               IN  /\ overlaps' = [overlaps EXCEPT ![d] = found]
                   /\ IF alignment_engines > 0
                         THEN /\ cigar' = [cigar EXCEPT ![d] =
                                              [i \in 1 .. Len(found) |-> << >>]]
                              /\ worker_pc' = [worker_pc EXCEPT ![d] = "align_overlaps"]
                         ELSE /\ cigar' = [cigar EXCEPT ![d] = << >>]
                              /\ worker_pc' = [worker_pc EXCEPT ![d] = "add"]
                   /\ UNCHANGED not_found
          ELSE /\ not_found' = [not_found EXCEPT ![d] = TRUE]
               /\ worker_pc' = [worker_pc EXCEPT ![d] = "throwing"]
               /\ UNCHANGED << overlaps, cigar >>
    /\ processed' = [processed EXCEPT ![d] =
                        Append(@, [ batch        |-> Len(taken[d]),
                                    device_batch |-> device_batch_idx[d],
                                    query        |-> CurQuery(d),
                                    target       |-> CurTarget(d) ])]
    /\ UNCHANGED << paramVars, hostCacheVars, host_lookups, deviceVars, cacheVars,
                    claimVars, output_mutex, mainVars, cuda_streams, aborted,
                    batches_of_indices, loopVars, queueVars, writerVars, alignVars, taken,
                    added, received, written >>

\* ---------------------------------------------------------- align_overlaps
\* main.cpp:134-144
MaxQuerySize(ovl) ==
    SetMax({0} \cup { ovl[i].query_end_position_in_read_ - ovl[i].query_start_position_in_read_ :
                        i \in 1 .. Len(ovl) })

MaxTargetSize(ovl) ==
    SetMax({0} \cup { ovl[i].target_end_position_in_read_ - ovl[i].target_start_position_in_read_ :
                        i \in 1 .. Len(ovl) })

\* main.cpp:148-152: (free * 85 / 100) / (0.03 * max_query_size * max_target_size)
\* converted to size_t, that is rounded towards zero; the quotient of the
\* two fractions is taken exactly
MaxAlignments(free, mq, mt) ==
    (free * MemoryPercentNum * MemoryPerBaseDen) \div (MemoryPercentDen * MemoryPerBaseNum * mq * mt)

\* the values max_alignments may take: the conversion of a quotient with
\* divisor 0 is undefined
MaxAlignmentsOutcomes(free, mq, mt) ==
    IF mq * mt = 0 THEN UndefinedConversions ELSE { MaxAlignments(free, mq, mt) }

\* main.cpp:153; static_cast<int32_t> leaves max_alignments as it is: with
\* FreeMemValues and OverlapSizes every quotient is below 2^31
BatchSize(n, max_alignments, engines) ==
    CDiv(Min(n, max_alignments), engines)

\* "device memory cannot hold even one alignment of the largest overlap":
\* 0.85 * free < 0.03 * max_query_size * max_target_size
MemoryExhausted(free, mq, mt) ==
    free * MemoryPercentNum * MemoryPerBaseDen < MemoryPercentDen * MemoryPerBaseNum * mq * mt

\* main.cpp:133-176: sizes, batch size, cursor, and the launch of one
\* run_alignment_batch thread per engine (each creates its stream and its
\* aligner, main.cpp:55-67, before its first claim)
AlignOverlaps(d) ==
    /\ ~aborted
    /\ worker_pc[d] = "align_overlaps"
    /\ \E free \in FreeMemValues :
       \E max_alignments \in MaxAlignmentsOutcomes(free, MaxQuerySize(overlaps[d]),
                                                   MaxTargetSize(overlaps[d])) :
          /\ free_memory' = [free_memory EXCEPT ![d] = free]
          /\ batch_size' = [batch_size EXCEPT ![d] =
                               BatchSize(Len(overlaps[d]), max_alignments, alignment_engines)]
    /\ overlap_idx' = [overlap_idx EXCEPT ![d] = 0]
    /\ engine_pc' = [engine_pc EXCEPT ![d] =
                        [t \in Engines |-> IF t < alignment_engines THEN "claim" ELSE "none"]]
    /\ engine_device_id' = [engine_device_id EXCEPT ![d] =
                               [t \in Engines |-> IF t < alignment_engines
                                                     THEN Some(DefaultDevice) ELSE Empty]]
    /\ future_idx' = [future_idx EXCEPT ![d] = 0]
    /\ claimed' = [claimed EXCEPT ![d] = {}]
    /\ claim_count' = [claim_count EXCEPT ![d] = [i \in 1 .. Len(overlaps[d]) |-> 0]]
    /\ cigar_writers' = [cigar_writers EXCEPT ![d] = [i \in 1 .. Len(overlaps[d]) |-> << >>]]
    /\ worker_pc' = [worker_pc EXCEPT ![d] = "align_get"]
    /\ UNCHANGED << paramVars, hostCacheVars, lookupVars, worker_device, writer_device,
                    cacheVars, output_mutex, mainVars, cuda_streams, aborted,
                    batches_of_indices, loopVars, pairVars, queueVars, writerVars,
                    idx_start, idx_end, alignments, histVars >>

\* EngineClaim in which each engine continues from the end of its own last
\* range instead of the shared cursor
EngineClaim_PrivateCursor(d, t) ==
    /\ ~aborted
    /\ engine_pc[d][t] = "claim"
    /\ IF overlap_idx[d] = Len(overlaps[d])
          THEN /\ engine_pc' = [engine_pc EXCEPT ![d][t] = "done"]
               /\ UNCHANGED << idx_start, idx_end, overlap_idx, claimVars >>
          ELSE /\ idx_start' = [idx_start EXCEPT ![d][t] = idx_end[d][t]]
               /\ idx_end' = [idx_end EXCEPT ![d][t] =
                                 Min(idx_end[d][t] + batch_size[d], Len(overlaps[d]))]
               /\ overlap_idx' = [overlap_idx EXCEPT ![d] =
                                     Min(idx_end[d][t] + batch_size[d], Len(overlaps[d]))]
               /\ engine_pc' = [engine_pc EXCEPT ![d][t] = "align"]
               /\ claimed' = [claimed EXCEPT ![d] = @ \cup {<< idx_start'[d][t], idx_end'[d][t] >>}]
               /\ claim_count' = [claim_count EXCEPT ![d] =
                                     [i \in DOMAIN @ |->
                                         IF idx_start'[d][t] <= i - 1 /\ i - 1 < idx_end'[d][t]
                                            THEN @[i] + 1 ELSE @[i]]]
    /\ UNCHANGED << paramVars, hostCacheVars, lookupVars, deviceVars, cacheVars,
                    output_mutex, mainVars, cuda_streams, aborted, batches_of_indices,
                    worker_pc, loopVars, pairVars, queueVars, writerVars, batch_size,
                    future_idx, alignments, free_memory, cigar_writers, histVars >>

\* main.cpp:70-84: under overlap_idx_mtx, leave the loop or claim a range
EngineClaim(d, t) ==
    /\ ~aborted
    /\ engine_pc[d][t] = "claim"
    /\ IF overlap_idx[d] = Len(overlaps[d])
          THEN /\ engine_pc' = [engine_pc EXCEPT ![d][t] = "done"]
               /\ UNCHANGED << idx_start, idx_end, overlap_idx, claimVars >>
          ELSE /\ idx_start' = [idx_start EXCEPT ![d][t] = overlap_idx[d]]
               /\ idx_end' = [idx_end EXCEPT ![d][t] =
                                 Min(overlap_idx[d] + batch_size[d], Len(overlaps[d]))]
               /\ overlap_idx' = [overlap_idx EXCEPT ![d] =
                                     Min(overlap_idx[d] + batch_size[d], Len(overlaps[d]))]
               /\ engine_pc' = [engine_pc EXCEPT ![d][t] = "align"]
               /\ claimed' = [claimed EXCEPT ![d] = @ \cup {<< idx_start'[d][t], idx_end'[d][t] >>}]
               /\ claim_count' = [claim_count EXCEPT ![d] =
                                     [i \in DOMAIN @ |->
                                         IF idx_start'[d][t] <= i - 1 /\ i - 1 < idx_end'[d][t]
                                            THEN @[i] + 1 ELSE @[i]]]
    /\ UNCHANGED << paramVars, hostCacheVars, lookupVars, deviceVars, cacheVars,
                    output_mutex, mainVars, cuda_streams, aborted, batches_of_indices,
                    worker_pc, loopVars, pairVars, queueVars, writerVars, batch_size,
                    future_idx, alignments, free_memory, cigar_writers, histVars >>

\* what the aligner holds for one submitted overlap (main.cpp:88-95)
Alignment(overlap) ==
    << overlap.query_read_id_, overlap.query_start_position_in_read_,
       overlap.query_end_position_in_read_ - overlap.query_start_position_in_read_,
       overlap.target_read_id_, overlap.target_start_position_in_read_,
       overlap.target_end_position_in_read_ - overlap.target_start_position_in_read_ >>

\* Alignment::convert_to_cigar: a string that is a function of the alignment
\* (strings are sequences here, the empty std::string of cigar.resize is << >>)
convert_to_cigar(alignment) == << "cigar", alignment >>

\* aligner contents after the add_alignment calls of main.cpp:85-100
AddAlignments(batch, ovl, from, to) ==
    batch \o [i \in 1 .. (to - from) |-> Alignment(ovl[from + i])]

\* main.cpp:108-111: cigar[idx_start + i] = alignments[i]->convert_to_cigar()
CopyAlignments(cig, batch, from) ==
    [j \in 1 .. Len(cig) |->
        IF j - from \in 1 .. Len(batch) THEN convert_to_cigar(batch[j - from]) ELSE cig[j]]

\* history: engine t wrote the slots from + 1 .. from + count
RecordWriters(w, t, from, count) ==
    [j \in 1 .. Len(w) |-> IF j - from \in 1 .. count THEN Append(w[j], t) ELSE w[j]]

\* EngineAlign without batch->reset(): the aligner keeps the alignments of
\* the ranges it has processed before
EngineAlign_NoReset(d, t) ==
    /\ ~aborted
    /\ engine_pc[d][t] = "align"
    /\ \E status \in {"success", "rejected"} :
          IF status = "rejected" /\ idx_start[d][t] < idx_end[d][t]
             THEN /\ engine_pc' = [engine_pc EXCEPT ![d][t] = "threw"]
                  /\ UNCHANGED << cigar, cigar_writers, alignments >>
             ELSE LET batch == AddAlignments(alignments[d][t], overlaps[d],
                                             idx_start[d][t], idx_end[d][t])
                  IN  /\ cigar' = [cigar EXCEPT ![d] = CopyAlignments(@, batch, idx_start[d][t])]
                      /\ cigar_writers' = [cigar_writers EXCEPT ![d] =
                                              RecordWriters(@, t, idx_start[d][t], Len(batch))]
                      /\ alignments' = [alignments EXCEPT ![d][t] = batch]
                      /\ engine_pc' = [engine_pc EXCEPT ![d][t] = "claim"]
    /\ UNCHANGED << paramVars, hostCacheVars, lookupVars, deviceVars, cacheVars,
                    claimVars, output_mutex, mainVars, cuda_streams, aborted,
                    batches_of_indices, worker_pc, loopVars, overlaps, queueVars,
                    writerVars, batch_size, overlap_idx, future_idx, idx_start, idx_end,
                    free_memory, histVars >>

\* main.cpp:85-114: submit the claimed range; a rejected submission throws
\* (the exception is stored in the future); otherwise align, copy the cigars
\* to their slots and reset the aligner
EngineAlign(d, t) ==
    /\ ~aborted
    /\ engine_pc[d][t] = "align"
    /\ \E status \in {"success", "rejected"} :
          IF status = "rejected" /\ idx_start[d][t] < idx_end[d][t]
             THEN /\ engine_pc' = [engine_pc EXCEPT ![d][t] = "threw"]
                  /\ UNCHANGED << cigar, cigar_writers, alignments >>
             ELSE LET batch == AddAlignments(alignments[d][t], overlaps[d],
                                             idx_start[d][t], idx_end[d][t])
                  IN  /\ cigar' = [cigar EXCEPT ![d] = CopyAlignments(@, batch, idx_start[d][t])]
                      /\ cigar_writers' = [cigar_writers EXCEPT ![d] =
                                              RecordWriters(@, t, idx_start[d][t], Len(batch))]
                      /\ alignments' = [alignments EXCEPT ![d][t] = << >>]
                      /\ engine_pc' = [engine_pc EXCEPT ![d][t] = "claim"]
    /\ UNCHANGED << paramVars, hostCacheVars, lookupVars, deviceVars, cacheVars,
                    claimVars, output_mutex, mainVars, cuda_streams, aborted,
                    batches_of_indices, worker_pc, loopVars, overlaps, queueVars,
                    writerVars, batch_size, overlap_idx, future_idx, idx_start, idx_end,
                    free_memory, histVars >>

EngineFinished(d, t) == engine_pc[d][t] \in {"done", "threw", "none"}

\* AlignGet that waits for the future without taking its result: what the
\* engine threw is dropped
AlignGet_DropsError(d) ==
    /\ ~aborted
    /\ worker_pc[d] = "align_get"
    /\ engine_pc[d][future_idx[d]] \in {"done", "threw"}
    /\ IF future_idx[d] + 1 < alignment_engines
          THEN /\ future_idx' = [future_idx EXCEPT ![d] = @ + 1]
               /\ UNCHANGED << worker_pc, engine_pc, batch_size, overlap_idx,
                               idx_start, idx_end, free_memory >>
          ELSE /\ worker_pc' = [worker_pc EXCEPT ![d] = "add"]
               /\ future_idx' = [future_idx EXCEPT ![d] = 0]
               /\ UNCHANGED << engine_pc, batch_size, overlap_idx, idx_start, idx_end,
                               free_memory >>
    /\ UNCHANGED << paramVars, hostCacheVars, lookupVars, deviceVars, cacheVars,
                    claimVars, output_mutex, mainVars, cuda_streams, aborted,
                    batches_of_indices, loopVars, pairVars, queueVars, writerVars,
                    alignments, cigar_writers, histVars >>

\* main.cpp:178-182: f.get() on the next future: returns when the engine has
\* finished, rethrows what it threw; after the last one align_overlaps
\* returns and its locals are gone
AlignGet(d) ==
    /\ ~aborted
    /\ worker_pc[d] = "align_get"
    /\ engine_pc[d][future_idx[d]] \in {"done", "threw"}
    /\ IF engine_pc[d][future_idx[d]] = "threw"
          THEN /\ worker_pc' = [worker_pc EXCEPT ![d] = "throwing"]
               /\ UNCHANGED << future_idx, engine_pc, batch_size, overlap_idx, idx_start,
                               idx_end, free_memory, engine_device_id, claimVars >>
          ELSE IF future_idx[d] + 1 < alignment_engines
                  THEN /\ future_idx' = [future_idx EXCEPT ![d] = @ + 1]
                       /\ UNCHANGED << worker_pc, engine_pc, batch_size, overlap_idx,
                                       idx_start, idx_end, free_memory,
                                       engine_device_id, claimVars >>
                  ELSE /\ worker_pc' = [worker_pc EXCEPT ![d] = "add"]
                       /\ future_idx' = [future_idx EXCEPT ![d] = 0]
                       /\ engine_pc' = [engine_pc EXCEPT ![d] = [t \in Engines |-> "none"]]
                       /\ batch_size' = [batch_size EXCEPT ![d] = 0]
                       /\ overlap_idx' = [overlap_idx EXCEPT ![d] = 0]
                       /\ idx_start' = [idx_start EXCEPT ![d] = [t \in Engines |-> 0]]
                       /\ idx_end' = [idx_end EXCEPT ![d] = [t \in Engines |-> 0]]
                       /\ free_memory' = [free_memory EXCEPT ![d] = 0]
                       /\ engine_device_id' = [engine_device_id EXCEPT ![d] =
                                                  [t \in Engines |-> Empty]]
                       /\ claimed' = [claimed EXCEPT ![d] = {}]
                       /\ claim_count' = [claim_count EXCEPT ![d] = << >>]
    /\ UNCHANGED << paramVars, hostCacheVars, lookupVars, worker_device, writer_device,
                    cacheVars, output_mutex, mainVars, cuda_streams, aborted,
                    batches_of_indices, loopVars, pairVars, queueVars, writerVars,
                    alignments, cigar_writers, histVars >>

\* a worker that catches the exception and goes on to its normal end
TerminateAfterUnwinding_Swallows(d) ==
    /\ ~aborted
    /\ worker_pc[d] = "throwing"
    /\ \A t \in Engines : EngineFinished(d, t)
    /\ worker_pc' = [worker_pc EXCEPT ![d] = "signal"]
    /\ UNCHANGED << paramVars, hostCacheVars, lookupVars, deviceVars, cacheVars,
                    claimVars, output_mutex, mainVars, cuda_streams, aborted,
                    batches_of_indices, loopVars, pairVars, queueVars, writerVars,
                    alignVars, histVars >>

\* the exception leaves worker_thread_function (no handler in main.cpp:342-402):
\* std::terminate ends the process.  Whether the stack is unwound first is
\* implementation-defined; if it is, the destructors of the remaining
\* futures wait for their engines
TerminateAfterUnwinding(d) ==
    /\ ~aborted
    /\ worker_pc[d] = "throwing"
    /\ \A t \in Engines : EngineFinished(d, t)
    /\ worker_pc' = [worker_pc EXCEPT ![d] = "terminated"]
    /\ aborted' = TRUE
    /\ UNCHANGED << paramVars, hostCacheVars, lookupVars, deviceVars, cacheVars,
                    claimVars, output_mutex, mainVars, cuda_streams, batches_of_indices,
                    loopVars, pairVars, queueVars, writerVars, alignVars, histVars >>

TerminateWithoutUnwinding(d) ==
    /\ ~aborted
    /\ worker_pc[d] = "throwing"
    /\ worker_pc' = [worker_pc EXCEPT ![d] = "terminated"]
    /\ aborted' = TRUE
    /\ UNCHANGED << paramVars, hostCacheVars, lookupVars, deviceVars, cacheVars,
                    claimVars, output_mutex, mainVars, cuda_streams, batches_of_indices,
                    loopVars, pairVars, queueVars, writerVars, alignVars, histVars >>

\* ------------------------------------------------- hand-over to the writer
\* main.cpp:185-189, with the position of the element in the device's stream
\* of elements (seq, history only)
OverlapsAndCigars(ovl, cig, n) == [overlaps |-> ovl, cigars |-> cig, seq |-> n]

\* WorkerAdd with the new element put at the front of the queue
WorkerAdd_PushFront(d) ==
    /\ ~aborted
    /\ worker_pc[d] = "add"
    /\ LET element == OverlapsAndCigars(overlaps[d], cigar[d], Len(added[d]) + 1)
       IN  /\ queue' = [queue EXCEPT ![d] = << element >> \o @]
           /\ added' = [added EXCEPT ![d] = Append(@, element)]
    /\ overlaps' = [overlaps EXCEPT ![d] = << >>]
    /\ cigar' = [cigar EXCEPT ![d] = << >>]
    /\ cigar_writers' = [cigar_writers EXCEPT ![d] = << >>]
    /\ target_idx' = [target_idx EXCEPT ![d] = @ + 1]
    /\ worker_pc' = [worker_pc EXCEPT ![d] = "pair"]
    /\ UNCHANGED << paramVars, hostCacheVars, lookupVars, deviceVars, cacheVars,
                    claimVars, output_mutex, mainVars, cuda_streams, aborted,
                    batches_of_indices, batch_of_indices, device_batch_idx, query_idx,
                    pushed_last, writerVars, batch_size, overlap_idx, future_idx,
                    engine_pc, idx_start, idx_end, alignments, free_memory, taken,
                    received, written, processed >>

\* WorkerAdd with the overlaps and cigars copied, the worker keeping its own
WorkerAdd_KeepsData(d) ==
    /\ ~aborted
    /\ worker_pc[d] = "add"
    /\ LET element == OverlapsAndCigars(overlaps[d], cigar[d], Len(added[d]) + 1)
       IN  /\ queue' = [queue EXCEPT ![d] = add_new_element(@, element)]
           /\ added' = [added EXCEPT ![d] = Append(@, element)]
    /\ cigar_writers' = [cigar_writers EXCEPT ![d] = << >>]
    /\ target_idx' = [target_idx EXCEPT ![d] = @ + 1]
    /\ worker_pc' = [worker_pc EXCEPT ![d] = "pair"]
    /\ UNCHANGED << paramVars, hostCacheVars, lookupVars, deviceVars, cacheVars,
                    claimVars, output_mutex, mainVars, cuda_streams, aborted,
                    batches_of_indices, batch_of_indices, device_batch_idx, query_idx,
                    pairVars, pushed_last, writerVars, batch_size, overlap_idx,
                    future_idx, engine_pc, idx_start, idx_end, alignments, free_memory,
                    taken, received, written, processed >>

\* WorkerAdd on a queue of capacity one: it waits until the writer took the
\* element queued before
WorkerAdd_Bounded(d) ==
    /\ ~aborted
    /\ worker_pc[d] = "add"
    /\ queue[d] = << >>
    /\ LET element == OverlapsAndCigars(overlaps[d], cigar[d], Len(added[d]) + 1)
       IN  /\ queue' = [queue EXCEPT ![d] = add_new_element(@, element)]
           /\ added' = [added EXCEPT ![d] = Append(@, element)]
    /\ overlaps' = [overlaps EXCEPT ![d] = << >>]
    /\ cigar' = [cigar EXCEPT ![d] = << >>]
    /\ cigar_writers' = [cigar_writers EXCEPT ![d] = << >>]
    /\ target_idx' = [target_idx EXCEPT ![d] = @ + 1]
    /\ worker_pc' = [worker_pc EXCEPT ![d] = "pair"]
    /\ UNCHANGED << paramVars, hostCacheVars, lookupVars, deviceVars, cacheVars,
                    claimVars, output_mutex, mainVars, cuda_streams, aborted,
                    batches_of_indices, batch_of_indices, device_batch_idx, query_idx,
                    pushed_last, writerVars, batch_size, overlap_idx, future_idx,
                    engine_pc, idx_start, idx_end, alignments, free_memory, taken,
                    received, written, processed >>

\* WorkerAdd that hands an element over only if the pair produced an overlap
WorkerAdd_SkipsEmpty(d) ==
    /\ ~aborted
    /\ worker_pc[d] = "add"
    /\ LET element == OverlapsAndCigars(overlaps[d], cigar[d], Len(added[d]) + 1)
       IN  IF overlaps[d] = << >>
              THEN UNCHANGED << queue, added >>
              ELSE /\ queue' = [queue EXCEPT ![d] = add_new_element(@, element)]
                   /\ added' = [added EXCEPT ![d] = Append(@, element)]
    /\ overlaps' = [overlaps EXCEPT ![d] = << >>]
    /\ cigar' = [cigar EXCEPT ![d] = << >>]
    /\ cigar_writers' = [cigar_writers EXCEPT ![d] = << >>]
    /\ target_idx' = [target_idx EXCEPT ![d] = @ + 1]
    /\ worker_pc' = [worker_pc EXCEPT ![d] = "pair"]
    /\ UNCHANGED << paramVars, hostCacheVars, lookupVars, deviceVars, cacheVars,
                    claimVars, output_mutex, mainVars, cuda_streams, aborted,
                    batches_of_indices, batch_of_indices, device_batch_idx, query_idx,
                    pushed_last, writerVars, batch_size, overlap_idx, future_idx,
                    engine_pc, idx_start, idx_end, alignments, free_memory, taken,
                    received, written, processed >>

\* main.cpp:254-257: the overlaps and the cigars are moved into the new
\* element of the queue; next target
WorkerAdd(d) ==
    /\ ~aborted
    /\ worker_pc[d] = "add"
    /\ LET element == OverlapsAndCigars(overlaps[d], cigar[d], Len(added[d]) + 1)
       IN  /\ queue' = [queue EXCEPT ![d] = add_new_element(@, element)]
           /\ added' = [added EXCEPT ![d] = Append(@, element)]
    /\ overlaps' = [overlaps EXCEPT ![d] = << >>]
    /\ cigar' = [cigar EXCEPT ![d] = << >>]
    /\ cigar_writers' = [cigar_writers EXCEPT ![d] = << >>]
    /\ target_idx' = [target_idx EXCEPT ![d] = @ + 1]
    /\ worker_pc' = [worker_pc EXCEPT ![d] = "pair"]
    /\ UNCHANGED << paramVars, hostCacheVars, lookupVars, deviceVars, cacheVars,
                    claimVars, output_mutex, mainVars, cuda_streams, aborted,
                    batches_of_indices, batch_of_indices, device_batch_idx, query_idx,
                    pushed_last, writerVars, batch_size, overlap_idx, future_idx,
                    engine_pc, idx_start, idx_end, alignments, free_memory, taken,
                    received, written, processed >>

\* main.cpp:396: overlaps_and_cigars_to_write.signal_pushed_last_element()
WorkerSignal(d) ==
    /\ ~aborted
    /\ worker_pc[d] = "signal"
    /\ pushed_last' = [pushed_last EXCEPT ![d] = TRUE]
    /\ worker_pc' = [worker_pc EXCEPT ![d] = "join_writer"]
    /\ UNCHANGED << paramVars, hostCacheVars, lookupVars, deviceVars, cacheVars,
                    claimVars, output_mutex, mainVars, cuda_streams, aborted,
                    batches_of_indices, loopVars, pairVars, queue, writerVars, alignVars,
                    histVars >>

\* WorkerJoinWriter that does not wait for the writer thread
WorkerJoinWriter_NoWait(d) ==
    /\ ~aborted
    /\ worker_pc[d] = "join_writer"
    /\ worker_pc' = [worker_pc EXCEPT ![d] = "sync"]
    /\ UNCHANGED << paramVars, hostCacheVars, lookupVars, deviceVars, cacheVars,
                    claimVars, output_mutex, mainVars, cuda_streams, aborted,
                    batches_of_indices, loopVars, pairVars, queueVars, writerVars,
                    alignVars, histVars >>

\* main.cpp:398: writer_thread.join()
WorkerJoinWriter(d) ==
    /\ ~aborted
    /\ worker_pc[d] = "join_writer"
    /\ writer_pc[d] = "done"
    /\ worker_pc' = [worker_pc EXCEPT ![d] = "sync"]
    /\ UNCHANGED << paramVars, hostCacheVars, lookupVars, deviceVars, cacheVars,
                    claimVars, output_mutex, mainVars, cuda_streams, aborted,
                    batches_of_indices, loopVars, pairVars, queueVars, writerVars,
                    alignVars, histVars >>

\* main.cpp:401: cudaStreamSynchronize(cuda_stream), end of the thread
WorkerSync(d) ==
    /\ ~aborted
    /\ worker_pc[d] = "sync"
    /\ cuda_streams' = [cuda_streams EXCEPT ![d] = "synchronized"]
    /\ worker_pc' = [worker_pc EXCEPT ![d] = "done"]
    /\ UNCHANGED << paramVars, hostCacheVars, lookupVars, deviceVars, cacheVars,
                    claimVars, output_mutex, mainVars, aborted, batches_of_indices,
                    loopVars, pairVars, queueVars, writerVars, alignVars, histVars >>

\* ----------------------------------------------------------- writer thread
\* Overlapper::post_process_overlaps: consecutive overlaps of the same pair
\* of reads whose ranges touch or overlap are fused into one
Fusable(a, b) ==
    /\ a.query_read_id_ = b.query_read_id_
    /\ a.target_read_id_ = b.target_read_id_
    /\ b.query_start_position_in_read_ <= a.query_end_position_in_read_
    /\ b.target_start_position_in_read_ <= a.target_end_position_in_read_

Fuse(a, b) ==
    [a EXCEPT !.query_end_position_in_read_ = b.query_end_position_in_read_,
              !.target_end_position_in_read_ = b.target_end_position_in_read_]

RECURSIVE post_process_overlaps(_)
post_process_overlaps(ovl) ==
    IF Len(ovl) < 2 THEN ovl
    ELSE IF Fusable(ovl[1], ovl[2])
            THEN post_process_overlaps(<< Fuse(ovl[1], ovl[2]) >> \o SubSeq(ovl, 3, Len(ovl)))
            ELSE << ovl[1] >> \o post_process_overlaps(Tail(ovl))

\* WriterGet that does not wait: an empty queue reads as the end
WriterGet_NoWait(d) ==
    /\ ~aborted
    /\ writer_pc[d] = "get"
    /\ data_to_write' = [data_to_write EXCEPT ![d] = get_next_element_value(queue[d])]
    /\ queue' = [queue EXCEPT ![d] = get_next_element_rest(@)]
    /\ received' = [received EXCEPT ![d] = Append(@, get_next_element_value(queue[d]))]
    /\ writer_pc' = [writer_pc EXCEPT ![d] =
                        IF HasValue(get_next_element_value(queue[d])) THEN "write" ELSE "done"]
    /\ UNCHANGED << paramVars, hostCacheVars, lookupVars, deviceVars, cacheVars,
                    claimVars, output_mutex, mainVars, cuda_streams, aborted,
                    batches_of_indices, worker_pc, loopVars, pairVars, pushed_last,
                    alignVars, taken, added, written, processed >>

\* main.cpp:309-310 and 328: get_next_element() and the test of the loop
WriterGet(d) ==
    /\ ~aborted
    /\ writer_pc[d] = "get"
    /\ get_next_element_ready(queue[d], pushed_last[d])
    /\ data_to_write' = [data_to_write EXCEPT ![d] = get_next_element_value(queue[d])]
    /\ queue' = [queue EXCEPT ![d] = get_next_element_rest(@)]
    /\ received' = [received EXCEPT ![d] = Append(@, get_next_element_value(queue[d]))]
    /\ writer_pc' = [writer_pc EXCEPT ![d] =
                        IF HasValue(get_next_element_value(queue[d])) THEN "write" ELSE "done"]
    /\ UNCHANGED << paramVars, hostCacheVars, lookupVars, deviceVars, cacheVars,
                    claimVars, output_mutex, mainVars, cuda_streams, aborted,
                    batches_of_indices, worker_pc, loopVars, pairVars, pushed_last,
                    alignVars, taken, added, written, processed >>


\* print_paf (cudamapper_utils), called at main.cpp:320-325 with the shared
\* output_mutex: it takes the mutex for the time it writes
WriterLock(d) ==
    /\ ~aborted
    /\ writer_pc[d] = "write"
    /\ output_mutex = Empty
    /\ output_mutex' = Some(d)
    /\ writer_pc' = [writer_pc EXCEPT ![d] = "print"]
    /\ UNCHANGED << paramVars, hostCacheVars, lookupVars, deviceVars, cacheVars,
                    claimVars, mainVars, cuda_streams, aborted, batches_of_indices,
                    worker_pc, loopVars, pairVars, queueVars, data_to_write, alignVars,
                    histVars >>

\* WriterWrite that returns to get_next_element with the output mutex held
WriterWrite_KeepsMutex(d) ==
    /\ ~aborted
    /\ writer_pc[d] = "print"
    /\ output_mutex = Some(d)
    /\ written' = [written EXCEPT ![d] =
                      Append(@, [ seq           |-> Value(data_to_write[d]).seq,
                                  overlaps      |-> post_process_overlaps(Value(data_to_write[d]).overlaps),
                                  cigars        |-> Value(data_to_write[d]).cigars,
                                  query_parser  |-> "query_parser",
                                  target_parser |-> "query_parser" ])]
    /\ data_to_write' = [data_to_write EXCEPT ![d] = Empty]
    /\ writer_pc' = [writer_pc EXCEPT ![d] = "get"]
    /\ UNCHANGED << paramVars, hostCacheVars, lookupVars, deviceVars, cacheVars,
                    claimVars, output_mutex, mainVars, cuda_streams, aborted,
                    batches_of_indices, worker_pc, loopVars, pairVars, queueVars,
                    alignVars, taken, added, received, processed >>

\* WriterWrite that leaves the loop once the last element was signalled,
\* whatever is still queued
WriterWrite_StopsOnSignal(d) ==
    /\ ~aborted
    /\ writer_pc[d] = "print"
    /\ output_mutex = Some(d)
    /\ output_mutex' = Empty
    /\ written' = [written EXCEPT ![d] =
                      Append(@, [ seq           |-> Value(data_to_write[d]).seq,
                                  overlaps      |-> post_process_overlaps(Value(data_to_write[d]).overlaps),
                                  cigars        |-> Value(data_to_write[d]).cigars,
                                  query_parser  |-> "query_parser",
                                  target_parser |-> "query_parser" ])]
    /\ data_to_write' = [data_to_write EXCEPT ![d] = Empty]
    /\ writer_pc' = [writer_pc EXCEPT ![d] = IF pushed_last[d] THEN "done" ELSE "get"]
    /\ UNCHANGED << paramVars, hostCacheVars, lookupVars, deviceVars, cacheVars,
                    claimVars, mainVars, cuda_streams, aborted, batches_of_indices,
                    worker_pc, loopVars, pairVars, queueVars, alignVars, taken, added,
                    received, processed >>

\* main.cpp:312-328: the overlaps post-processed in place are printed by
\* print_paf, which then releases the output mutex; both parsers handed to
\* print_paf are the query parser
WriterWrite(d) ==
    /\ ~aborted
    /\ writer_pc[d] = "print"
    /\ output_mutex = Some(d)
    /\ output_mutex' = Empty
    /\ written' = [written EXCEPT ![d] =
                      Append(@, [ seq           |-> Value(data_to_write[d]).seq,
                                  overlaps      |-> post_process_overlaps(Value(data_to_write[d]).overlaps),
                                  cigars        |-> Value(data_to_write[d]).cigars,
                                  query_parser  |-> "query_parser",
                                  target_parser |-> "query_parser" ])]
    /\ data_to_write' = [data_to_write EXCEPT ![d] = Empty]
    /\ writer_pc' = [writer_pc EXCEPT ![d] = "get"]
    /\ UNCHANGED << paramVars, hostCacheVars, lookupVars, deviceVars, cacheVars,
                    claimVars, mainVars, cuda_streams, aborted, batches_of_indices,
                    worker_pc, loopVars, pairVars, queueVars, alignVars, taken, added,
                    received, processed >>

\* how the process has ended: main.cpp:452 returns 0; std::terminate ends it
\* through abort (SIGABRT, a non-zero status)
ExitStatus ==
    IF aborted THEN "SIGABRT" ELSE IF main_pc = "returned" THEN "0" ELSE "running"

\* ------------------------------------------------------------------- Next
Next ==
    \/ MainSpawn
    \/ MainJoin
    \/ MainDestroyStream
    \/ \E d \in Devices : WorkerStart(d)
    \/ \E d \in Devices : WorkerGetBatch(d)
    \/ \E d \in Devices : ProcessOneBatch(d)
    \/ \E d \in Devices : ProcessOneDeviceBatch(d)
    \/ \E d \in Devices : NextPair(d)
    \/ \E d \in Devices : ProcessPair(d)
    \/ \E d \in Devices : AlignOverlaps(d)
    \/ \E d \in Devices, t \in Engines : EngineClaim(d, t)
    \/ \E d \in Devices, t \in Engines : EngineAlign(d, t)
    \/ \E d \in Devices : AlignGet(d)
    \/ \E d \in Devices : TerminateAfterUnwinding(d)
    \/ \E d \in Devices : TerminateWithoutUnwinding(d)
    \/ \E d \in Devices : WorkerAdd(d)
    \/ \E d \in Devices : WorkerSignal(d)
    \/ \E d \in Devices : WorkerJoinWriter(d)
    \/ \E d \in Devices : WorkerSync(d)
    \/ \E d \in Devices : WriterGet(d)
    \/ \E d \in Devices : WriterLock(d)
    \/ \E d \in Devices : WriterWrite(d)

Spec == Init /\ [][Next]_vars

\* the steps of each thread: main, the worker of a device (main.cpp:436), its
\* writer (main.cpp:373), an alignment engine (main.cpp:164)
MainStep == MainSpawn \/ MainJoin \/ MainDestroyStream

WorkerStep(d) ==
    \/ WorkerStart(d) \/ WorkerGetBatch(d) \/ ProcessOneBatch(d)
    \/ ProcessOneDeviceBatch(d) \/ NextPair(d) \/ ProcessPair(d) \/ AlignOverlaps(d)
    \/ AlignGet(d) \/ TerminateAfterUnwinding(d) \/ TerminateWithoutUnwinding(d)
    \/ WorkerAdd(d) \/ WorkerSignal(d) \/ WorkerJoinWriter(d) \/ WorkerSync(d)

WriterStep(d) == WriterGet(d) \/ WriterLock(d) \/ WriterWrite(d)

EngineStep(d, t) == EngineClaim(d, t) \/ EngineAlign(d, t)

\* every thread that can take a step is eventually scheduled
Fairness ==
    /\ WF_vars(MainStep)
    /\ \A d \in Devices : WF_vars(WorkerStep(d)) /\ WF_vars(WriterStep(d))
    /\ \A d \in Devices, t \in Engines : WF_vars(EngineStep(d, t))

FairSpec == Spec /\ Fairness

\* ================================================================== claims

\* C1: the results get_next_element has returned to the writer of a device
\* are the elements added by its worker, in the order they were added, and the
\* writer ends on the empty result that follows all of them: nothing lost,
\* duplicated or reordered.
C1_FifoThenTerminal ==
    \A d \in Devices :
        /\ \A i \in 1 .. Len(received[d]) :
              HasValue(received[d][i]) =>
                  /\ i <= Len(added[d])
                  /\ Value(received[d][i]) = added[d][i]
        /\ writer_pc[d] = "done" =>
              /\ Len(received[d]) = Len(added[d]) + 1
              /\ ~HasValue(received[d][Len(received[d])])
              /\ \A i \in 1 .. Len(added[d]) : HasValue(received[d][i])

C1_Witness ==
    \E d \in Devices :
        /\ writer_pc[d] = "done"
        /\ Len(added[d]) >= 2
        /\ Len(received[d]) = Len(added[d]) + 1

\* C2: the writer gets the empty (terminal) result only in a step taken when
\* the terminal signal has been posted and the queue is empty.
C2_NoPrematureReturn ==
    [][ \A d \in Devices :
            (writer_pc[d] # "done" /\ writer_pc'[d] = "done") =>
                (pushed_last[d] /\ queue[d] = << >>) ]_vars

C2_Witness ==
    \E d \in Devices :
        /\ writer_pc[d] = "done"
        /\ pushed_last[d]
        /\ Len(added[d]) >= 1

\* C3: no batch of the global queue is returned to two workers, nor twice to
\* one worker.
C3_BatchTakenOnce ==
    \A d1, d2 \in Devices :
        \A i \in 1 .. Len(taken[d1]) :
            \A j \in 1 .. Len(taken[d2]) :
                (taken[d1][i] = taken[d2][j]) => (d1 = d2 /\ i = j)

C3_Witness ==
    /\ \A d \in Devices : Len(taken[d]) >= 1
    /\ batches_of_indices = << >>

\* C4 (as claimed): a worker that ended on a fatal error has posted the
\* terminal signal to its result queue.
C4_SignalOnFailure ==
    \A d \in Devices : worker_pc[d] = "terminated" => pushed_last[d]

\* C5: the terminal signal is posted only when the global queue has returned
\* empty to the worker and the worker is past its loop, nothing is added
\* after it, and a writer that has ended has written every element added.
C5_SignalAfterLastAdd ==
    \A d \in Devices :
        /\ pushed_last[d] =>
              /\ ~HasValue(batch_of_indices[d])
              /\ batches_of_indices = << >>
              /\ worker_pc[d] \in {"join_writer", "sync", "done"}
              /\ Len(queue[d]) + Len(written[d])
                    + (IF HasValue(data_to_write[d]) THEN 1 ELSE 0) = Len(added[d])
        /\ writer_pc[d] = "done" =>
              /\ queue[d] = << >>
              /\ [i \in 1 .. Len(written[d]) |-> written[d][i].seq]
                    = [i \in 1 .. Len(added[d]) |-> i]

C5_Witness ==
    \E d \in Devices :
        /\ pushed_last[d]
        /\ writer_pc[d] = "write"
        /\ Len(queue[d]) >= 1

\* number of places (queue, writer's hand, output) element k of device d is in
Occurrences(d, k) ==
    Cardinality({ i \in 1 .. Len(queue[d]) : queue[d][i].seq = k })
    + (IF HasValue(data_to_write[d]) /\ Value(data_to_write[d]).seq = k THEN 1 ELSE 0)
    + Cardinality({ i \in 1 .. Len(written[d]) : written[d][i].seq = k })

\* C6: every element added is in exactly one place - the queue, the writer's
\* hand or the output - and is there as the worker added it (the output holds
\* it post-processed); the worker holds no overlaps or cigars outside the
\* processing of the pair that has not been handed over yet.
C6_HandedOverOnce ==
    \A d \in Devices :
        /\ \A k \in 1 .. Len(added[d]) : Occurrences(d, k) = 1
        /\ \A i \in 1 .. Len(queue[d]) : queue[d][i] = added[d][queue[d][i].seq]
        /\ HasValue(data_to_write[d]) =>
              Value(data_to_write[d]) = added[d][Value(data_to_write[d]).seq]
        /\ \A i \in 1 .. Len(written[d]) :
              /\ written[d][i].cigars = added[d][written[d][i].seq].cigars
              /\ written[d][i].overlaps
                    = post_process_overlaps(added[d][written[d][i].seq].overlaps)
        /\ worker_pc[d] \notin {"align_overlaps", "align_get", "add", "throwing", "terminated"} =>
              (overlaps[d] = << >> /\ cigar[d] = << >>)

C6_Witness ==
    \E d \in Devices :
        /\ Len(written[d]) >= 1
        /\ written[d][1].overlaps # << >>
        /\ HasValue(data_to_write[d])
        /\ Len(queue[d]) >= 1

\* C7: a device stream is synchronized only after the writer thread of the
\* device has ended (been joined), and destroyed only after the worker thread
\* has ended and main has joined it.
C7_StreamOutlivesWriter ==
    \A d \in Devices :
        /\ cuda_streams[d] \in {"synchronized", "destroyed"} =>
              (writer_pc[d] = "done" /\ worker_pc[d] = "done")
        /\ cuda_streams[d] = "destroyed" =>
              (main_pc = "returned" \/ main_device_id > d)
        /\ worker_pc[d] \in {"sync", "done"} => writer_pc[d] = "done"

C7_Witness ==
    \E d \in Devices :
        /\ cuda_streams[d] = "destroyed"
        /\ Len(written[d]) >= 1

\* the engines of device d are running for a non-empty overlap list
Aligning(d) == worker_pc[d] = "align_get" /\ Len(overlaps[d]) > 0

\* C8 (as claimed): when 85% of the free memory holds one alignment of the
\* largest overlap and there are overlaps, the batch size given to the
\* engines is at least 1.
C8_BatchSizeAtLeastOne ==
    \A d \in Devices :
        (Aligning(d) /\ ~MemoryExhausted(free_memory[d], MaxQuerySize(overlaps[d]),
                                         MaxTargetSize(overlaps[d])))
            => batch_size[d] >= 1

\* C9 (as claimed): when 85% of the free memory does not hold one alignment
\* of the largest overlap, no engine is run (with a batch size of 0): the
\* stage fails instead.
C9_ExhaustionIsFatal ==
    \A d \in Devices :
        ~(Aligning(d) /\ MemoryExhausted(free_memory[d], MaxQuerySize(overlaps[d]),
                                         MaxTargetSize(overlaps[d])))

\* C10: when align_overlaps has returned normally, every cigar slot was
\* written exactly once, by one engine, and holds the cigar of the alignment
\* of the overlap with the same index.
C10_EverySlotWrittenOnce ==
    \A d \in Devices :
        (worker_pc[d] = "add" /\ alignment_engines > 0) =>
            /\ Len(cigar[d]) = Len(overlaps[d])
            /\ Len(cigar_writers[d]) = Len(overlaps[d])
            /\ \A i \in 1 .. Len(overlaps[d]) :
                  /\ Len(cigar_writers[d][i]) = 1
                  /\ cigar[d][i] = convert_to_cigar(Alignment(overlaps[d][i]))

C10_Witness ==
    \E d \in Devices :
        /\ worker_pc[d] = "add"
        /\ alignment_engines = 2
        /\ Len(overlaps[d]) = 2
        /\ cigar_writers[d] = << << 0 >>, << 1 >> >>

\* device batch i of the b-th batch taken by device d has left its loops
DeviceBatchDone(d, b, i) ==
    \/ b < Len(taken[d])
    \/ /\ b = Len(taken[d])
       /\ worker_pc[d] # "process_one_batch"
       /\ i < device_batch_idx[d]

\* the pairs processed for that device batch, as positions in the history
PairsOf(d, b, i) ==
    { k \in 1 .. Len(processed[d]) :
        processed[d][k].batch = b /\ processed[d][k].device_batch = i }

\* C11: a device batch that has been gone through has had |Q| * |T| pairs
\* processed when all_to_all is off; when it is on and Q = T has n
\* descriptors with distinct first reads, n * (n + 1) / 2 pairs: those with
\* target.first_read >= query.first_read, each once.
C11_NumberOfPairs ==
    \A d \in Devices :
        \A b \in 1 .. Len(taken[d]) :
            \A i \in 1 .. Len(taken[d][b].device_batches) :
                DeviceBatchDone(d, b, i) =>
                    LET Q == taken[d][b].device_batches[i].query_indices
                        T == taken[d][b].device_batches[i].target_indices
                        n == Len(Q)
                    IN  /\ ~all_to_all => Cardinality(PairsOf(d, b, i)) = Len(Q) * Len(T)
                        /\ (all_to_all /\ Q = T
                              /\ \A x, y \in 1 .. n : Q[x].first_read = Q[y].first_read => x = y) =>
                              /\ 2 * Cardinality(PairsOf(d, b, i)) = n * (n + 1)
                              /\ { << processed[d][k].query, processed[d][k].target >> :
                                       k \in PairsOf(d, b, i) }
                                    = { qt \in { << Q[x], T[y] >> : x, y \in 1 .. n } :
                                          qt[2].first_read >= qt[1].first_read }

C11_Witness ==
    \E d \in Devices :
        /\ all_to_all
        /\ Len(taken[d]) = 1
        /\ taken[d][1] = SquareBatch
        /\ DeviceBatchDone(d, 1, 1)
        /\ Cardinality(PairsOf(d, 1, 1)) = 3

\* an engine of device d has had a submission rejected and has thrown
EngineThrew(d) == \E t \in Engines : engine_pc[d][t] = "threw"

\* C12: once add_alignment has been rejected for an overlap of a pair, the
\* worker is still in align_overlaps or is leaving it with the error, and no
\* element has been enqueued for that pair: the elements added are those of
\* the pairs processed before it.  A worker leaves with an error only for a
\* rejected submission.
C12_RejectionAbortsPair ==
    \A d \in Devices :
        /\ EngineThrew(d) =>
              /\ worker_pc[d] \in {"align_get", "throwing", "terminated"}
              /\ Len(added[d]) = Len(processed[d]) - 1
        /\ worker_pc[d] \in {"throwing", "terminated"} => EngineThrew(d)

C12_Witness ==
    \E d \in Devices :
        /\ EngineThrew(d)
        /\ worker_pc[d] = "terminated"
        /\ Len(processed[d]) >= 2

\* C13 (as claimed): after the fatal error of one worker, a sibling worker
\* that is about to pull a batch can pull it, and a sibling writer with a
\* queued element can take it: the siblings are not stopped.
C13_SiblingsContinue ==
    \A d, e \in Devices :
        (worker_pc[d] = "terminated" /\ e # d) =>
            /\ worker_pc[e] = "get_batch" => ENABLED WorkerGetBatch(e)
            /\ (writer_pc[e] = "get" /\ queue[e] # << >>) => ENABLED WriterGet(e)

\* C14: a run in which a fatal error was raised (a rejected submission, a
\* worker leaving with the exception) does not end with status 0, and a run
\* ended by std::terminate has a worker that left with a fatal error.
C14_FatalErrorNonZeroExit ==
    /\ (\E d \in Devices : EngineThrew(d) \/ worker_pc[d] \in {"throwing", "terminated"})
          => ExitStatus # "0"
    /\ ExitStatus = "SIGABRT" => \E d \in Devices : worker_pc[d] = "terminated" /\ EngineThrew(d)
    /\ ExitStatus = "0" => \A d \in Devices : d < num_devices => worker_pc[d] = "done"

C14_Witness ==
    /\ ExitStatus = "SIGABRT"
    /\ num_devices = 2
    /\ \E d \in Devices : worker_pc[d] = "done"

\* C15: at most one writer thread is inside print_paf's write at any time; the
\* output mutex is held exactly by the writer that is printing, and never by a
\* writer that is in (or blocked in) get_next_element or has returned
C15_OutputSerialised ==
    /\ Cardinality({ d \in Devices : writer_pc[d] = "print" }) <= 1
    /\ \A d \in Devices :
          /\ writer_pc[d] = "print" => output_mutex = Some(d)
          /\ output_mutex = Some(d) => writer_pc[d] = "print"
          /\ writer_pc[d] \in {"not_started", "get", "done"} => output_mutex # Some(d)

\* one writer prints while the writer of the other device waits for the mutex
\* with an element in hand
C15_Witness ==
    \E d, e \in Devices :
        /\ d # e
        /\ writer_pc[d] = "print"
        /\ writer_pc[e] = "write"
        /\ HasValue(data_to_write[e])
        /\ output_mutex = Some(d)

\* C16: every thread working for device d (worker, writer, each alignment
\* engine thread) has d as its current device whenever it may issue a device
\* call
C16_DeviceAffinity ==
    \A d \in Devices :
        /\ worker_pc[d] \notin {"not_started", "start"} => worker_device[d] = Some(d)
        /\ writer_pc[d] # "not_started" => writer_device[d] = Some(d)
        /\ \A t \in Engines :
              engine_pc[d][t] # "none" => engine_device_id[d][t] = Some(d)

\* C17: with 0 alignment engines align_overlaps never runs and every element
\* handed to the queue carries all overlaps of its pair with an empty cigar
\* sequence; with more than 0 engines it carries one cigar per overlap
C17_CigarsFollowEngines ==
    /\ alignment_engines = 0 =>
          \A d \in Devices :
              /\ worker_pc[d] \notin {"align_overlaps", "align_get"}
              /\ \A t \in Engines : engine_pc[d][t] = "none"
    /\ \A d \in Devices : \A k \in 1 .. Len(added[d]) :
          /\ added[d][k].overlaps =
                get_overlaps(processed[d][k].query, processed[d][k].target)
          /\ alignment_engines = 0 => added[d][k].cigars = << >>
          /\ alignment_engines > 0 =>
                Len(added[d][k].cigars) = Len(added[d][k].overlaps)

\* without engines, an element with an overlap and no cigar was handed over
C17_Witness ==
    \E d \in Devices :
        /\ alignment_engines = 0
        /\ Len(added[d]) >= 1
        /\ Len(added[d][1].overlaps) >= 1
        /\ added[d][1].cigars = << >>

InDeviceBatch(d) ==
    worker_pc[d] \in {"pair", "align_overlaps", "align_get", "add", "throwing", "terminated"}

\* C18: while a device batch D is processed, the device query (target) cache
\* holds exactly the query (target) descriptors of D, so no descriptor of an
\* earlier device batch that D does not name is left in it
C18_DeviceCacheIsBatch ==
    \A d \in Devices :
        InDeviceBatch(d) =>
            /\ device_query_cache[d] = DescriptorsOf(CurDeviceBatch(d).query_indices)
            /\ device_target_cache[d] = DescriptorsOf(CurDeviceBatch(d).target_indices)

\* the second device batch of a host batch: the query descriptor of the first
\* one is gone from the query cache, the target cache keeps both descriptors
C18_Witness ==
    \E d \in Devices :
        /\ InDeviceBatch(d)
        /\ device_batch_idx[d] = 2
        /\ processed[d] # << >>
        /\ processed[d][1].query \notin device_query_cache[d]
        /\ device_query_cache[d] # {}
        /\ Cardinality(device_target_cache[d]) = 2

\* C19: add_new_element never waits: whenever the worker is about to hand an
\* element over, the hand-over can happen, whatever the queue holds and
\* whatever the writer is doing
C19_AddNeverWaits ==
    \A d \in Devices :
        (worker_pc[d] = "add" /\ ~aborted) => ENABLED WorkerAdd(d)

\* the worker hands its third element over while the second is still queued
\* and its writer, holding the first, waits for the output mutex that the
\* writer of the other device holds
C19_Witness ==
    \E d, e \in Devices :
        /\ d # e
        /\ Len(added[d]) = 3
        /\ Len(queue[d]) = 2
        /\ writer_pc[d] = "write"
        /\ output_mutex = Some(e)

EnginesRunning(d) == worker_pc[d] \in {"align_get", "throwing", "terminated"}

ClaimedRangesPartition(d) ==
    LET n == Len(overlaps[d])
    IN  /\ 0 <= overlap_idx[d] /\ overlap_idx[d] <= n
        /\ \A r \in claimed[d] :
              /\ 0 <= r[1] /\ r[1] <= r[2] /\ r[2] <= overlap_idx[d]
              /\ r[2] - r[1] = batch_size[d] \/ r[2] = n
              /\ r[1] = 0 \/ \E q \in claimed[d] : q[2] = r[1]
        /\ \A i \in 1 .. n :
              claim_count[d][i] = IF i - 1 < overlap_idx[d] THEN 1 ELSE 0
        /\ \A t \in Engines :
              /\ engine_pc[d][t] = "align" => << idx_start[d][t], idx_end[d][t] >> \in claimed[d]
              /\ engine_pc[d][t] = "done" => overlap_idx[d] = n

CursorNeverDecreases ==
    \A d \in Devices :
        (EnginesRunning(d) /\ EnginesRunning(d)') => overlap_idx'[d] >= overlap_idx[d]

C21_AlignOverlapsTerminates ==
    /\ \A d \in Devices, t \in Engines :
          (engine_pc[d][t] \in {"claim", "align"})
              ~> (engine_pc[d][t] \notin {"claim", "align"} \/ aborted)
    /\ \A d \in Devices :
          (worker_pc[d] = "align_get") ~> (worker_pc[d] # "align_get" \/ aborted)

\* C22: in every record the writer writes with alignment enabled, overlaps and
\* cigars have the same length and cigars[i] is the cigar of the alignment of
\* overlaps[i], the overlaps being those left by post_process_overlaps
C22_WrittenIndexAligned ==
    \A d \in Devices : \A k \in 1 .. Len(written[d]) :
        alignment_engines > 0 =>
            /\ Len(written[d][k].cigars) = Len(written[d][k].overlaps)
            /\ \A i \in 1 .. Len(written[d][k].cigars) :
                  i <= Len(written[d][k].overlaps) =>
                      written[d][k].cigars[i] =
                          convert_to_cigar(Alignment(written[d][k].overlaps[i]))

FatalError ==
    aborted \/ \E d \in Devices : EngineThrew(d) \/ worker_pc[d] \in {"throwing", "terminated"}

AllDone ==
    /\ main_pc = "returned"
    /\ batches_of_indices = << >>
    /\ \A d \in Devices : d < num_devices =>
          /\ worker_pc[d] = "done"
          /\ writer_pc[d] = "done"
          /\ pushed_last[d]
          /\ Len(added[d]) = Len(processed[d])
          /\ Len(written[d]) = Len(added[d])

\* C23: under fair scheduling a run without fatal error ends with every batch
\* taken and processed, every enqueued element written, every worker's
\* terminal signal posted, every writer and worker finished, and main returned
C23_RunCompletes == <>(FatalError \/ AllDone)

HostBatchDescriptors(d, b, role) ==
    IF role = "query" THEN DescriptorsOf(taken[d][b].host_batch.query_indices)
                      ELSE DescriptorsOf(taken[d][b].host_batch.target_indices)

\* C24: no cache lookup fails: every descriptor the device cache asked the
\* host cache for belongs to the host batch being processed at that time, and
\* every pair processed in the current device batch got its two indices from
\* the device cache as generated for that device batch
C24_LookupsSucceed ==
    \A d \in Devices :
        /\ ~not_found[d]
        /\ \A l \in host_lookups[d] : l[3] \in HostBatchDescriptors(d, l[1], l[2])
        /\ InDeviceBatch(d) =>
              \A k \in PairsOf(d, Len(taken[d]), device_batch_idx[d]) :
                  /\ processed[d][k].query \in device_query_cache[d]
                  /\ processed[d][k].target \in device_target_cache[d]

\* in the second device batch of a host batch the device cache fetched the new
\* query descriptor from the host cache and a pair with it was processed
C24_Witness ==
    \E d \in Devices :
        /\ InDeviceBatch(d)
        /\ device_batch_idx[d] = 2
        /\ << 1, "query", D2 >> \in host_lookups[d]
        /\ \E k \in PairsOf(d, 1, 2) : processed[d][k].query = D2
        /\ ~not_found[d]

PositionIn(descriptors, x) == CHOOSE j \in DOMAIN descriptors : descriptors[j] = x

DeviceBatchOf(d, p) == taken[d][p.batch].device_batches[p.device_batch]

\* p comes before q in the order: host batches as popped, their device batches
\* in list order, queries in list order, targets in list order
ProcessedBefore(d, p, q) ==
    LET qp == PositionIn(DeviceBatchOf(d, p).query_indices, p.query)
        tp == PositionIn(DeviceBatchOf(d, p).target_indices, p.target)
        qq == PositionIn(DeviceBatchOf(d, q).query_indices, q.query)
        tq == PositionIn(DeviceBatchOf(d, q).target_indices, q.target)
    IN  \/ p.batch < q.batch
        \/ p.batch = q.batch /\ p.device_batch < q.device_batch
        \/ p.batch = q.batch /\ p.device_batch = q.device_batch /\ qp < qq
        \/ p.batch = q.batch /\ p.device_batch = q.device_batch /\ qp = qq /\ tp < tq

\* C25: per device the pairs are processed in the order of the batches popped,
\* of the device batches in each, and query-major within a device batch; the
\* k-th element enqueued is the one of the k-th pair and the k-th record
\* written is the one of the k-th element
C25_OrderPreserved ==
    \A d \in Devices :
        /\ \A k \in 1 .. Len(processed[d]) :
              /\ processed[d][k].batch \in 1 .. Len(taken[d])
              /\ processed[d][k].device_batch \in
                    1 .. Len(taken[d][processed[d][k].batch].device_batches)
              /\ processed[d][k].query \in
                    DescriptorsOf(DeviceBatchOf(d, processed[d][k]).query_indices)
              /\ processed[d][k].target \in
                    DescriptorsOf(DeviceBatchOf(d, processed[d][k]).target_indices)
        /\ \A k, l \in 1 .. Len(processed[d]) :
              k < l => ProcessedBefore(d, processed[d][k], processed[d][l])
        /\ Len(written[d]) <= Len(added[d]) /\ Len(added[d]) <= Len(processed[d])
        /\ \A k \in 1 .. Len(added[d]) :
              /\ added[d][k].seq = k
              /\ added[d][k].overlaps =
                    get_overlaps(processed[d][k].query, processed[d][k].target)
        /\ \A k \in 1 .. Len(written[d]) : written[d][k].seq = k

\* a worker is in the second device batch of a host batch, its writer has
\* written the two elements of the first and the third is enqueued
C25_Witness ==
    \E d \in Devices :
        /\ Len(processed[d]) >= 3
        /\ processed[d][3].device_batch = 2
        /\ processed[d][1].target # processed[d][2].target
        /\ Len(added[d]) >= 3
        /\ Len(written[d]) = 2

\* the elements enqueued for the pairs of device batch i of the b-th batch
ElementsOf(d, b, i) == { k \in PairsOf(d, b, i) : k <= Len(added[d]) }

NonSkippedPairs(Q, T) ==
    { qt \in { << Q[x], T[y] >> : x \in DOMAIN Q, y \in DOMAIN T } :
        PairIsProcessed(qt[1], qt[2]) }

\* C26: the k-th element enqueued belongs to the k-th processed pair, only the
\* pair being processed has no element yet, no processed pair is a skipped
\* one, and a device batch that has been gone through has added one element
\* for each of its non-skipped pairs, with or without overlaps, and no other
C26_OneElementPerPair ==
    \A d \in Devices :
        /\ Len(added[d]) <= Len(processed[d])
        /\ Len(processed[d]) <= Len(added[d]) + 1
        /\ Len(processed[d]) = Len(added[d]) + 1 =>
              worker_pc[d] \in {"align_overlaps", "align_get", "add", "throwing", "terminated"}
        /\ \A k \in 1 .. Len(processed[d]) :
              PairIsProcessed(processed[d][k].query, processed[d][k].target)
        /\ \A b \in 1 .. Len(taken[d]) :
              \A i \in 1 .. Len(taken[d][b].device_batches) :
                  DeviceBatchDone(d, b, i) =>
                      LET pairs == NonSkippedPairs(taken[d][b].device_batches[i].query_indices,
                                                   taken[d][b].device_batches[i].target_indices)
                      IN  /\ ElementsOf(d, b, i) = PairsOf(d, b, i)
                          /\ Cardinality(ElementsOf(d, b, i)) = Cardinality(pairs)
                          /\ { << processed[d][k].query, processed[d][k].target >> :
                                  k \in ElementsOf(d, b, i) } = pairs

\* all-to-all over two descriptors with no overlap anywhere: the device batch
\* is through, three elements without overlaps were added and the pruned pair
\* got none
C26_Witness ==
    \E d \in Devices :
        /\ all_to_all
        /\ overlap_sizes = << >>
        /\ Len(taken[d]) = 1
        /\ taken[d][1] = SquareBatch
        /\ DeviceBatchDone(d, 1, 1)
        /\ Len(added[d]) = 3
        /\ \A k \in 1 .. 3 : added[d][k].overlaps = << >>

C28_TargetNamesFromTargetParser ==
    \A d \in Devices : \A k \in 1 .. Len(written[d]) :
        /\ written[d][k].query_parser = "query_parser"
        /\ ~all_to_all => written[d][k].target_parser = "target_parser"

====
